---- MODULE Spec2Model ----
(***************************************************************************)
(* Verification model of the C4 architecture recovery pipeline.            *)
(*                                                                         *)
(*   KnowledgeGraphBuilder  src/src/knowledge_graph/graph_builder.py       *)
(*   C4Generator            src/src/c4/c4_generator.py                     *)
(*   C4ModelBuilder         src/src/generator/c4_model_builder.py          *)
(*                                                                         *)
(* The networkx calls of the graph builder (DiGraph.add_node, add_edge,    *)
(* in_degree, descendants, pagerank, louvain_communities) are modelled by  *)
(* the algorithm the library runs.                                         *)
(***************************************************************************)
EXTENDS Integers, Sequences, FiniteSets, TLC

VARIABLES
    nodes,      \* KnowledgeGraphBuilder.nodes : Dict[str, GraphNode]
    edges,      \* KnowledgeGraphBuilder.edges : List[GraphEdge]
    gnodes,     \* node set of KnowledgeGraphBuilder.graph (nx.DiGraph)
    gedges,     \* edges of KnowledgeGraphBuilder.graph: (u, v) -> attributes
    nops,       \* number of facts ingested so far
    lastOp,     \* the last operation called: [op, arg, result]
    ingested,   \* history: identity key and node id of every ingested component fact
    relFacts,   \* history: the relationship facts ingested, in order
    analysis,   \* the analysis dict SemanticAnalyzer.analyze hands to C4ModelBuilder.build
    dependency_graph,   \* SemanticAnalyzer.dependency_graph: nodes and edges in insertion order
    model,      \* the C4Model returned by C4ModelBuilder.build, NoModel before
    main,       \* main(): whether it runs, its exit code, the oracle call in flight and the oracle's replies to build
    run         \* C4ArchitectureRecovery.run: its position and the facts and contexts it holds

graphVars == <<nodes, edges, gnodes, gedges, nops, lastOp, ingested, relFacts>>

builderVars == <<analysis, dependency_graph, model, main>>

vars == <<nodes, edges, gnodes, gedges, nops, lastOp, ingested, relFacts,
          analysis, dependency_graph, model, main, run>>

----------------------------------------------------------------------------
(* Bounds *)

MaxOps == 3          \* facts ingested in one run (rich facts, two names)
MaxMetricOps == 3    \* facts ingested in one run (plain facts, three names)
MaxRunFacts == 2     \* components the parsers of one run report
BfsFuel == 12        \* rounds the breadth-first search may take before it is declared stuck
MaxAnalysis == 3     \* containers, infrastructure resources and source files found in the repository

----------------------------------------------------------------------------
(* Inputs *)

IngestNames == {"A", "B"}

\* the name of a fact that has none: None
MissingName == "<None>"
MetricNames == {"A", "B", "C"}

NoTags == {}

Component(n, t, tech, ports, tags, path) ==
    [name |-> n, type |-> t, technology |-> tech, dependencies |-> {},
     exposed_ports |-> ports, environment_vars |-> {}, endpoints |-> {},
     metadata |-> [tags |-> tags, source_path |-> path]]

\* facts of the collectors (ast_parser.py): a service seen three times with
\* different detail, and a Kubernetes ingress
ComponentFacts ==
    UNION {{Component(n, "service", "python", {8080}, NoTags, "svc"),
            Component(n, "service", "", {}, NoTags, "svc"),
            Component(n, "service", "go", {9090}, {"external"}, "svc"),
            Component(n, "ingress", "kubernetes", {80, 443}, NoTags, "")} : n \in IngestNames}

\* a fact of a manifest whose metadata has "name:" with no value
MalformedFacts == {Component(MissingName, "service", "python", {8080}, NoTags, "svc")}

MetricComponentFacts ==
    {Component(n, "service", "python", {8080}, NoTags, "svc") : n \in MetricNames}

SemanticContext(n, p) ==
    [component_name |-> n, purpose |-> p, business_capability |-> "Unknown"]

Purposes == {"", "Handles requests"}

Relationship(s, t, ty, proto, desc) ==
    [source |-> s, target |-> t, type |-> ty, protocol |-> proto, description |-> desc]

RelationshipFacts ==
    UNION {{Relationship(s, t, "calls", "http", "Calls the API"),
            Relationship(s, t, "calls", "", "")} : s \in IngestNames, t \in IngestNames}

MetricRelationshipFacts ==
    {Relationship(s, t, "calls", "http", "Calls the API") : s \in MetricNames, t \in MetricNames}

\* semantic_info of SemanticEnricher.enrich_relationships: the oracle's JSON
\* may or may not carry a "protocol" key
NoProtocol == "<absent>"
SemanticInfos == {[protocol |-> NoProtocol], [protocol |-> "grpc"]}
MetricSemanticInfos == {[protocol |-> NoProtocol]}

NoModel == [name |-> "<none>"]
NoInsights == [analysed |-> FALSE, systems |-> <<>>]

\* main() before any oracle call of build: no reply yet
NoCall == "<no call>"
RunStarted == [pc |-> "scan"]

NoReplies == [system |-> NoCall, containers |-> <<>>, components |-> <<>>,
              relationships |-> <<>>]
MainStarted == [state |-> "running", code |-> 0, in_flight |-> FALSE, replies |-> NoReplies]

\* the dependency graph of a new SemanticAnalyzer: nx.DiGraph()
NoGraph == [built |-> FALSE, nodes |-> <<>>, edges |-> <<>>]

----------------------------------------------------------------------------
(* Helpers *)

EmptyFn == [x \in {} |-> {}]

Put(f, k, v) == [x \in (DOMAIN f) \cup {k} |-> IF x = k THEN v ELSE f[x]]

\* the identity key the specification gives a component fact
IdentityKey(c) == <<c.type, c.name, c.metadata.source_path>>

----------------------------------------------------------------------------
(* KnowledgeGraphBuilder *)

\* a node id that also depends on a field outside the identity key
NodeIdWithTechnology(c) == <<c.name, c.technology>>

\* GraphNode(id=component.name, ...): the node id is the component's name
NodeId(c) == c.name

GraphNode(c, sem) ==
    [id |-> NodeId(c),
     type |-> c.type,
     properties |-> [technology |-> c.technology,
                     ports |-> c.exposed_ports,
                     env_vars |-> c.environment_vars,
                     endpoints |-> c.endpoints,
                     metadata |-> c.metadata],
     semantic_context |-> sem]

\* properties={'protocol': ..., 'description': ..., **semantic_info}:
\* a key of semantic_info replaces the key of the fact
EdgeProperties(r, sem) ==
    [protocol |-> IF sem.protocol = NoProtocol THEN r.protocol ELSE sem.protocol,
     description |-> r.description]

GraphEdge(r, sem) ==
    [source |-> r.source, target |-> r.target, type |-> r.type,
     properties |-> EdgeProperties(r, sem)]

\* self.nodes[component.name] = node
StoreNode(table, c, sem) == Put(table, c.name, GraphNode(c, sem))

\* self.edges.append(edge)
StoreEdge(list, r, sem) == Append(list, GraphEdge(r, sem))

\* nx.DiGraph.add_edge(u, v, **attr): both endpoints become nodes of the graph,
\* the pair holds one edge and its attributes are updated
DiGraphAddEdge(g, r, sem) == Put(g, <<r.source, r.target>>, EdgeProperties(r, sem))

Init ==
    /\ nodes = EmptyFn
    /\ edges = <<>>
    /\ gnodes = {}
    /\ gedges = EmptyFn
    /\ nops = 0
    /\ lastOp = [op |-> "init"]
    /\ ingested = {}
    /\ relFacts = <<>>
    /\ analysis = [containers |-> <<>>, components |-> <<>>, terraform |-> <<>>,
                   insights |-> NoInsights]
    /\ dependency_graph = NoGraph
    /\ model = NoModel
    /\ main = MainStarted
    /\ run = RunStarted

\* how often a fact with this identity key has been ingested
TimesIngested(key) == Cardinality({h \in ingested : h.key = key})

\* nx add_node and add_edge: "if node_for_adding is None: raise ValueError"
NoneCannotBeANode(names) == MissingName \in names

\* the node table is written before graph.add_node is called, so it keeps
\* the entry when add_node raises
add_component(c, sem) ==
    /\ nodes' = StoreNode(nodes, c, sem)
    /\ gnodes' = IF NoneCannotBeANode({c.name}) THEN gnodes ELSE gnodes \cup {c.name}
    /\ nops' = nops + 1
    /\ lastOp' = [op |-> "add_component", arg |-> [fact |-> c, sem |-> sem],
                  result |-> NodeId(c), raised |-> NoneCannotBeANode({c.name})]
    /\ ingested' = IF NoneCannotBeANode({c.name}) THEN ingested
                   ELSE ingested \cup {[key |-> IdentityKey(c), id |-> NodeId(c),
                                         nth |-> TimesIngested(IdentityKey(c)) + 1]}
    /\ UNCHANGED <<edges, gedges, relFacts, analysis, dependency_graph, model, main, run>>

\* the edge list is appended to before graph.add_edge is called
add_relationship(r, sem) ==
    /\ edges' = StoreEdge(edges, r, sem)
    /\ gnodes' = IF NoneCannotBeANode({r.source, r.target}) THEN gnodes
                 ELSE gnodes \cup {r.source, r.target}
    /\ gedges' = IF NoneCannotBeANode({r.source, r.target}) THEN gedges
                 ELSE DiGraphAddEdge(gedges, r, sem)
    /\ nops' = nops + 1
    /\ lastOp' = [op |-> "add_relationship", arg |-> [fact |-> r, sem |-> sem],
                  raised |-> NoneCannotBeANode({r.source, r.target})]
    /\ relFacts' = Append(relFacts, r)
    /\ UNCHANGED <<nodes, ingested, analysis, dependency_graph, model, main, run>>

IngestComponent == nops < MaxOps /\ \E c \in ComponentFacts, p \in Purposes :
                       add_component(c, SemanticContext(c.name, p))

IngestMalformed == nops < MaxOps /\ \E c \in MalformedFacts :
                       add_component(c, SemanticContext(c.name, ""))

IngestRelationship == nops < MaxOps /\ \E r \in RelationshipFacts, s \in SemanticInfos :
                          add_relationship(r, s)

----------------------------------------------------------------------------
(* C4Generator: which tier a graph node is drawn at *)

\* _identify_containers: node.type in ['service', 'database', 'cache', 'queue', 'frontend']
ContainerTypes == {"service", "database", "cache", "queue", "frontend"}

_identify_containers == {n \in DOMAIN nodes : nodes[n].type \in ContainerTypes}

\* _identify_external_systems: 'external' in node.properties['metadata']['tags']
_identify_external_systems ==
    {n \in DOMAIN nodes : "external" \in nodes[n].properties.metadata.tags}

\* _get_components_in_container returns [] for every container
_get_components_in_container(container_name) == {}

\* the tiers the three diagrams draw node n at
TiersOf(cls, n) ==
    {t \in {"Container", "ExternalSystem", "Component"} : n \in cls[t]}

\* generate_context_diagram, generate_container_diagram and
\* generate_component_diagram each ask one of the helpers above
classify_nodes ==
    /\ lastOp' = [op |-> "classify",
                  result |-> [Container |-> _identify_containers,
                              ExternalSystem |-> _identify_external_systems,
                              Component |-> UNION {_get_components_in_container(c) :
                                                      c \in _identify_containers}]]
    /\ UNCHANGED <<nodes, edges, gnodes, gedges, nops, ingested, relFacts,
                   analysis, dependency_graph, model, main, run>>

----------------------------------------------------------------------------
(* KnowledgeGraphBuilder: metrics *)

RECURSIVE SetToSeq(_)
SetToSeq(S) == IF S = {} THEN <<>>
               ELSE LET x == CHOOSE y \in S : TRUE IN <<x>> \o SetToSeq(S \ {x})

RECURSIVE SumOver(_, _)
SumOver(S, f) == IF S = {} THEN 0
                 ELSE LET x == CHOOSE y \in S : TRUE IN f[x] + SumOver(S \ {x}, f)

\* the nodes the entry-point loop ranges over, were it to read the node table
TableNodes == DOMAIN nodes

\* self.graph.nodes()
GraphNodes == gnodes

Successors(n) == {v \in gnodes : <<n, v>> \in DOMAIN gedges}

\* self.graph.in_degree(node): the number of edges that end in node
in_degree(n) == Cardinality({e \in DOMAIN gedges : e[2] = n})

out_degree(n) == Cardinality({e \in DOMAIN gedges : e[1] = n})

\* for node in self.graph.nodes(): if self.graph.in_degree(node) == 0: append
EntryPoints == {n \in GraphNodes : in_degree(n) = 0}

identify_entry_points ==
    /\ lastOp' = [op |-> "identify_entry_points", result |-> EntryPoints]
    /\ UNCHANGED <<nodes, edges, gnodes, gedges, nops, ingested, relFacts,
                   analysis, dependency_graph, model, main, run>>

\* the children a breadth-first search that forgets its seen set would enqueue
UnguardedChildren(parent, seen) == Successors(parent)

\* networkx generic_bfs_edges: "if child not in seen"
NewChildren(parent, seen) == Successors(parent) \ seen

\* networkx bfs_edges from a source: seen = {source}, queue = [source]; each
\* round takes the head of the queue, yields its unseen children and enqueues
\* them.  The search is cut off after BfsFuel rounds.
RECURSIVE Bfs(_, _, _, _)
Bfs(queue, seen, yielded, fuel) ==
    IF queue = <<>> THEN [children |-> yielded, finished |-> TRUE]
    ELSE IF fuel = 0 THEN [children |-> yielded, finished |-> FALSE]
    ELSE LET new == NewChildren(Head(queue), seen)
         IN  Bfs(Tail(queue) \o SetToSeq(new), seen \cup new, yielded \cup new, fuel - 1)

\* nx.descendants(G, source) = {child for parent, child in nx.bfs_edges(G, source)}
Descendants(source) == Bfs(<<source>>, {source}, {}, BfsFuel)

\* if component not in self.graph: return []
find_dependencies_chain(component) ==
    /\ lastOp' = [op |-> "find_dependencies_chain", arg |-> [component |-> component],
                  result |-> IF component \notin gnodes
                             THEN [children |-> {}, finished |-> TRUE]
                             ELSE Descendants(component)]
    /\ UNCHANGED <<nodes, edges, gnodes, gedges, nops, ingested, relFacts,
                   analysis, dependency_graph, model, main, run>>

(* detect_subsystems: nx.community.louvain_communities on the undirected graph *)

\* self.graph.to_undirected(): an edge {u, v} for every (u, v); {u} is a self-loop
UndirectedEdges == {{e[1], e[2]} : e \in DOMAIN gedges}

\* graph.size(weight="weight"): every edge has weight 1
TotalWeight == Cardinality(UndirectedEdges)

\* degree of a node; a self-loop counts twice
Degree(u) ==
    Cardinality({e \in UndirectedEdges : u \in e}) + Cardinality({e \in UndirectedEdges : e = {u}})

\* total degree of a set of nodes (Stot of a community, degree of a merged node)
DegreeOf(S) == SumOver(S, [u \in S |-> Degree(u)])

\* weight of the edges between two disjoint sets of nodes
WeightBetween(S, T) ==
    Cardinality({e \in UndirectedEdges : e \cap S # {} /\ e \cap T # {}})

\* the initial partition, were it built from the node table
SingletonsOfTable == {{u} : u \in DOMAIN nodes}

\* partition = [{u} for u in G.nodes()]
Singletons == {{u} : u \in gnodes}

CommunityOf(part, u) == CHOOSE C \in part : u \subseteq C

\* modularity gain of moving node u (a set of original nodes) to community D,
\* times 2 * m^2:
\*   remove_cost = -weights2com[own] / m + Stot[own] * degree / (2 m^2)
\*   gain = remove_cost + wt / m - Stot[D] * degree / (2 m^2)
Gain(part, u, D) ==
    LET own == CommunityOf(part, u) \ u
        m == TotalWeight
    IN  (DegreeOf(own) * DegreeOf(u) - 2 * m * WeightBetween(u, own))
        + (2 * m * WeightBetween(u, D) - DegreeOf(D) * DegreeOf(u))

\* partition[C].remove(u); partition[best_com].add(u); empty sets are filtered
MoveNode(part, u, D) ==
    LET C == CommunityOf(part, u)
    IN  ((part \ {C, D}) \cup {C \ u, D \cup u}) \ {{}}

\* the moves _one_level may make next: a node goes to the neighbouring
\* community of greatest gain, when that gain is positive
BestMoves(part, level) ==
    {mv \in level \X part :
        LET u == mv[1]
            D == mv[2]
        IN  /\ D # CommunityOf(part, u)
            /\ WeightBetween(u, D) > 0
            /\ Gain(part, u, D) > 0
            /\ \A D2 \in part : (D2 # CommunityOf(part, u) /\ WeightBetween(u, D2) > 0)
                                   => Gain(part, u, D2) <= Gain(part, u, D)}

\* louvain_partitions: move nodes until no move improves (_one_level), merge
\* each community into one node (_gen_graph) and repeat until a level makes
\* no move.  The order in which nodes are visited is random, so every order
\* is followed.
RECURSIVE LouvainPartitions(_, _)
LouvainPartitions(part, level) ==
    LET moves == BestMoves(part, level)
    IN  IF moves # {}
        THEN UNION {LouvainPartitions(MoveNode(part, mv[1], mv[2]), level) : mv \in moves}
        ELSE IF level = part THEN {part}
        ELSE LouvainPartitions(part, part)

\* if nx.is_empty(G): the singletons are returned as they are
louvain_communities ==
    IF gedges = EmptyFn THEN {Singletons}
    ELSE LouvainPartitions(Singletons, Singletons)

\* return [set(community) for community in communities]
detect_subsystems ==
    /\ \E part \in louvain_communities :
          lastOp' = [op |-> "detect_subsystems", result |-> SetToSeq(part)]
    /\ UNCHANGED <<nodes, edges, gnodes, gedges, nops, ingested, relFacts,
                   analysis, dependency_graph, model, main, run>>

(* calculate_criticality: nx.pagerank(self.graph) with the library defaults *)
(* alpha = 0.85, max_iter = 100, tol = 1e-06.  Scores are fixed-point       *)
(* numbers with eight decimal places: One stands for 1.0.                   *)

One == 100000000
MaxIter == 100

\* alpha * v and (1 - alpha) * v for alpha = 0.85 = 17/20
Damped(v) == (17 * v) \div 20
Teleport(v) == (3 * v) \div 20

\* N * tol for tol = 1e-06
Tolerance(N) == N * (One \div 1000000)

Abs(v) == IF v < 0 THEN 0 - v ELSE v

\* dangling_nodes = [n for n in W if W.out_degree(n) == 0.0]
DanglingNodes == {n \in gnodes : out_degree(n) = 0}

\* the score vector x is kept as the set of its (node, score) items
Score(x, n) == (CHOOSE item \in x : item[1] = n)[2]

RECURSIVE SumScores(_, _)
SumScores(x, S) == IF S = {} THEN 0
                   ELSE LET n == CHOOSE y \in S : TRUE IN Score(x, n) + SumScores(x, S \ {n})

\* a power iteration that drops the mass of the dangling nodes
NoDangleSum(xlast) == 0

\* danglesum = alpha * sum(xlast[n] for n in dangling_nodes)
DangleSum(xlast) == Damped(SumScores(xlast, DanglingNodes))

\* the score that flows into n: x[nbr] += alpha * xlast[n] * (1 / out_degree(n))
RECURSIVE Inflow(_, _)
Inflow(xlast, preds) ==
    IF preds = {} THEN 0
    ELSE LET u == CHOOSE y \in preds : TRUE
         IN  Damped(Score(xlast, u) \div out_degree(u)) + Inflow(xlast, preds \ {u})

\* one round: the inflow over the edges, then
\* x[n] += danglesum * (1 / N) + (1 - alpha) * (1 / N)
PowerStep(xlast) ==
    LET N == Cardinality(gnodes)
        rest == (DangleSum(xlast) \div N) + Teleport(One \div N)
    IN  {<<n, Inflow(xlast, {u \in gnodes : <<u, n>> \in DOMAIN gedges}) + rest>> : n \in gnodes}

RECURSIVE ErrorSum(_, _, _)
ErrorSum(x, xlast, S) ==
    IF S = {} THEN 0
    ELSE LET n == CHOOSE y \in S : TRUE
         IN  Abs(Score(x, n) - Score(xlast, n)) + ErrorSum(x, xlast, S \ {n})

\* for _ in range(max_iter): ...; if err < N * tol: return x
\* raise nx.PowerIterationFailedConvergence(max_iter)
RECURSIVE PowerIteration(_, _)
PowerIteration(xlast, round) ==
    IF round > MaxIter THEN [raised |-> TRUE, scores |-> xlast, rounds |-> MaxIter]
    ELSE LET x == PowerStep(xlast)
         IN  IF ErrorSum(x, xlast, gnodes) < Tolerance(Cardinality(gnodes))
             THEN [raised |-> FALSE, scores |-> x, rounds |-> round]
             ELSE PowerIteration(x, round + 1)

\* if len(G) == 0: return {};  x = dict.fromkeys(W, 1.0 / N)
pagerank ==
    IF gnodes = {} THEN [raised |-> FALSE, scores |-> {}, rounds |-> 0]
    ELSE PowerIteration({<<n, One \div Cardinality(gnodes)>> : n \in gnodes}, 1)

calculate_criticality ==
    /\ lastOp' = [op |-> "calculate_criticality", result |-> pagerank]
    /\ UNCHANGED <<nodes, edges, gnodes, gedges, nops, ingested, relFacts,
                   analysis, dependency_graph, model, main, run>>

MetricIngestComponent ==
    nops < MaxMetricOps /\ \E c \in MetricComponentFacts, p \in {""} :
                               add_component(c, SemanticContext(c.name, p))

MetricIngestRelationship ==
    nops < MaxMetricOps /\ \E r \in MetricRelationshipFacts, s \in MetricSemanticInfos :
                               add_relationship(r, s)

QueryDependencies == \E component \in MetricNames : find_dependencies_chain(component)

\* _export_results asks for every metric of the finished graph
NextMetrics ==
    \/ MetricIngestComponent
    \/ MetricIngestRelationship
    \/ identify_entry_points
    \/ QueryDependencies
    \/ detect_subsystems
    \/ calculate_criticality

SpecMetrics == Init /\ [][NextMetrics]_vars

----------------------------------------------------------------------------
(* C4Generator: the diagrams *)

\* one Rel line: the ids and the description are always written, the
\* description in quotes; technology is the sequence of the arguments after it
RelLine(source, target, description, technology) ==
    [source |-> source, target |-> target, description |-> description,
     technology |-> technology]

\* tech_info = f", {rel.technology}" if rel.technology else "": no quotes
TechInfo(technology) ==
    IF technology # "" THEN <<[text |-> technology, quoted |-> FALSE]>> ELSE <<>>

\* _identify_actors: one 'user' when an entry point is in the node table with
\* type frontend, api_gateway or ingress
_identify_actors ==
    IF \E ep \in EntryPoints :
           ep \in DOMAIN nodes /\ nodes[ep].type \in {"frontend", "api_gateway", "ingress"}
    THEN {"user"} ELSE {}

\* generate_context_diagram with _render_plantuml_context: the relationships
\* carry no technology and the Rel lines have three arguments
generate_context_diagram ==
    {RelLine("system", ext, "Uses", <<>>) : ext \in _identify_external_systems}
    \cup {RelLine(actor, "system", "Uses", <<>>) : actor \in _identify_actors}

BetweenContainers(edge) ==
    edge.source \in _identify_containers /\ edge.target \in _identify_containers

\* _render_plantuml_container: one Rel line per relationship
RECURSIVE _render_plantuml_container(_)
_render_plantuml_container(relationships) ==
    IF relationships = <<>> THEN <<>>
    ELSE <<RelLine(Head(relationships).source, Head(relationships).target,
                   Head(relationships).properties.description,
                   TechInfo(Head(relationships).properties.protocol))>>
         \o _render_plantuml_container(Tail(relationships))

\* generate_container_diagram: one relationship per entry of the edge list
\* whose endpoints are both containers, technology = the edge's protocol
generate_container_diagram ==
    _render_plantuml_container(SelectSeq(edges, BetweenContainers))

\* the dicts of _identify_containers have the keys id, name, description and
\* technology: cont['type'] raises KeyError for the first container
generate_all_diagrams ==
    /\ lastOp' = [op |-> "generate_all_diagrams",
                  written |-> <<<<"context">>, <<"container">>>>,
                  context |-> generate_context_diagram,
                  container |-> generate_container_diagram,
                  raised |-> _identify_containers # {}]
    /\ UNCHANGED <<nodes, edges, gnodes, gedges, nops, ingested, relFacts,
                   analysis, dependency_graph, model, main, run>>

NextIngest ==
    \/ IngestComponent
    \/ IngestMalformed
    \/ IngestRelationship
    \/ classify_nodes
    \/ generate_all_diagrams

SpecIngest == Init /\ [][NextIngest]_vars

----------------------------------------------------------------------------
(* SemanticAnalyzer.analyze: the analysis dict *)

\* An image name is kept as the set of known signatures that are substrings
\* of it ('postgres:15' is {"postgres"}); ImageNone is the None of a compose
\* service without an image, KeyAbsent a container dict without 'image' key.
ImageNamed(signatures) == [kind |-> "str", signatures |-> signatures]
ImageNone == [kind |-> "None", signatures |-> {}]
KeyAbsent == [kind |-> "absent", signatures |-> {}]
Images == {ImageNamed({"postgres"}), ImageNamed({"postgres", "redis"})}

\* A path is the sequence of its segments: "web/sub/main.py" is
\* <<"web", "sub", "main.py">>. No segment used here is a string prefix of
\* another, so str.startswith on the strings is StartsWith on the segments.
PathNamed(segments) == [kind |-> "str", segments |-> segments]
PathAbsent == [kind |-> "absent", segments |-> <<>>]

\* the None of Python
None == <<"None">>

\* _analyze_docker, compose branch: one dict per service
ComposeContainer(service_name, image, depends_on) ==
    [id |-> <<"container", service_name>>, name |-> service_name, type |-> "container",
     image |-> image, technology |-> KeyAbsent, source_path |-> PathAbsent,
     depends_on |-> depends_on]

\* _analyze_docker, Dockerfile branch: one dict per Dockerfile, named after
\* the directory that holds it
DockerfileContainer(dir, base_image) ==
    [id |-> <<"container", dir[Len(dir)]>>, name |-> dir[Len(dir)], type |-> "container",
     image |-> KeyAbsent, technology |-> base_image, source_path |-> PathNamed(dir),
     depends_on |-> <<>>]

ContainerDicts ==
    {ComposeContainer("web", i, <<>>) : i \in Images \cup {ImageNone}}
      \cup {ComposeContainer("db", ImageNamed({"redis"}), <<"web">>)}
      \cup {ComposeContainer("worker", ImageNamed({}), <<"worker">>)}
      \cup {DockerfileContainer(d, ImageNamed({})) : d \in {<<"web">>, <<"web", "sub">>}}

TerraformTypes == {"aws_rds_instance", "aws_elasticache_cluster", "aws_sqs_queue", "aws_instance"}

\* a source file as PythonCodeParser.parse reports it: the names of its
\* classes and, of its imports, the class names that occur in them
CodeFile(path, stem, classes, imports) ==
    [path |-> path, stem |-> stem, classes |-> classes, imports |-> imports]

CodeFiles ==
    {CodeFile(<<"web", "main.py">>, "main", <<"App">>, <<"Util">>),
     CodeFile(<<"web", "sub", "main.py">>, "main", <<>>, <<>>),
     CodeFile(<<"lib", "util.py">>, "util", <<"Util">>, <<>>)}

AnalysisSize == Len(analysis.containers) + Len(analysis.terraform) + Len(analysis.components)

Scanning ==
    /\ main.state = "running"
    /\ analysis.insights = NoInsights
    /\ ~dependency_graph.built
    /\ AnalysisSize < MaxAnalysis

\* containers.append({...})
_analyze_docker(container) ==
    /\ Scanning
    /\ analysis.terraform = <<>> /\ analysis.components = <<>>
    /\ analysis' = [analysis EXCEPT !.containers = Append(@, container)]
    /\ UNCHANGED <<graphVars, dependency_graph, model, main, run>>

\* all_resources.extend(infrastructure['resources'])
_analyze_terraform(resource_type) ==
    /\ Scanning
    /\ analysis.components = <<>>
    /\ analysis' = [analysis EXCEPT !.terraform = Append(@, [type |-> resource_type])]
    /\ UNCHANGED <<graphVars, dependency_graph, model, main, run>>

\* str(file_path).startswith(container['source_path'])
StartsWith(path, prefix) ==
    /\ Len(prefix) <= Len(path)
    /\ SubSeq(path, 1, Len(prefix)) = prefix

MatchingContainers(file_path, containers) ==
    {i \in DOMAIN containers :
        /\ containers[i].source_path # PathAbsent
        /\ StartsWith(file_path, containers[i].source_path.segments)}

\* a match that does not test the prefix: the first container with a source_path
_match_file_to_any_container(file_path, containers) ==
    LET declared == {i \in DOMAIN containers : containers[i].source_path # PathAbsent}
    IN  IF declared = {} THEN None
        ELSE containers[CHOOSE i \in declared : \A j \in declared : i <= j].id

\* the id of the first container of the list that has a source_path the file
\* path starts with, None when there is none
_match_file_to_container(file_path, containers) ==
    LET matching == MatchingContainers(file_path, containers)
    IN  IF matching = {} THEN None
        ELSE containers[CHOOSE i \in matching : \A j \in matching : i <= j].id

\* components.append(component)
_analyze_code(file) ==
    /\ Scanning
    /\ analysis' = [analysis EXCEPT !.components = Append(@,
           [id |-> <<"component", file.stem>>, name |-> file.stem, type |-> "component",
            container_id |-> _match_file_to_container(file.path, analysis.containers),
            file_path |-> file.path,
            details |-> [classes |-> file.classes, imports |-> file.imports]])]
    /\ UNCHANGED <<graphVars, dependency_graph, model, main, run>>

RECURSIVE Flatten(_)
Flatten(seqs) == IF seqs = <<>> THEN <<>> ELSE Head(seqs) \o Flatten(Tail(seqs))

\* DiGraph.add_node: a new node goes to the end of the node order
DiGraphAddNode(graph_nodes, n) ==
    IF \E i \in DOMAIN graph_nodes : graph_nodes[i] = n THEN graph_nodes
    ELSE Append(graph_nodes, n)

RECURSIVE AddNodes(_, _)
AddNodes(graph_nodes, ids) ==
    IF ids = <<>> THEN graph_nodes
    ELSE AddNodes(DiGraphAddNode(graph_nodes, Head(ids)), Tail(ids))

\* DiGraph.add_edge(u, v, relationship=...): a new edge goes to the end of
\* the adjacency of u, an edge that exists keeps its place and takes the
\* new attribute
AddDependency(graph_edges, e) ==
    IF \E i \in DOMAIN graph_edges :
           graph_edges[i].source = e.source /\ graph_edges[i].target = e.target
    THEN [i \in DOMAIN graph_edges |->
             IF graph_edges[i].source = e.source /\ graph_edges[i].target = e.target
             THEN e ELSE graph_edges[i]]
    ELSE Append(graph_edges, e)

RECURSIVE AddDependencies(_, _)
AddDependencies(graph_edges, es) ==
    IF es = <<>> THEN graph_edges
    ELSE AddDependencies(AddDependency(graph_edges, Head(es)), Tail(es))

Dependency(s, t, rel) == [source |-> s, target |-> t, relationship |-> rel]

\* depends_on edges added without asking has_node
UncheckedDependsOnEdges(graph_nodes) ==
    Flatten([i \in DOMAIN analysis.containers |->
        LET c == analysis.containers[i]
        IN  [j \in DOMAIN c.depends_on |->
                Dependency(c.id, <<"container", c.depends_on[j]>>, "depends_on")]])

\* edges from docker-compose depends_on, kept when the target is a node
DependsOnEdges(graph_nodes) ==
    Flatten([i \in DOMAIN analysis.containers |->
        LET c == analysis.containers[i]
            deps == SelectSeq(c.depends_on,
                      LAMBDA dep : \E k \in DOMAIN graph_nodes :
                                       graph_nodes[k] = <<"container", dep>>)
        IN  [j \in DOMAIN deps |-> Dependency(c.id, <<"container", deps[j]>>, "depends_on")]])

\* edges component -> container for the components with a container_id
DeployedInEdges ==
    LET placed == SelectSeq(analysis.components, LAMBDA c : c.container_id # None)
    IN  [i \in DOMAIN placed |->
            Dependency(placed[i].id, placed[i].container_id, "deployed_in")]

\* module_map[cls['name']] = component['id']: the last component that
\* declares the class
ModuleMap(cls) ==
    LET declaring == {i \in DOMAIN analysis.components :
                         \E k \in DOMAIN analysis.components[i].details.classes :
                             analysis.components[i].details.classes[k] = cls}
    IN  IF declaring = {} THEN None
        ELSE analysis.components[CHOOSE i \in declaring : \A j \in declaring : j <= i].id

\* _analyze_code_dependencies: an edge for every import that names a class
\* of another component
ImportEdges ==
    Flatten([i \in DOMAIN analysis.components |->
        LET c == analysis.components[i]
            hits == SelectSeq(c.details.imports,
                      LAMBDA imp : ModuleMap(imp) # None /\ ModuleMap(imp) # c.id)
        IN  [j \in DOMAIN hits |-> Dependency(c.id, ModuleMap(hits[j]), "imports")]])

_build_dependency_graph ==
    /\ main.state = "running"
    /\ analysis.insights = NoInsights
    /\ ~dependency_graph.built
    /\ LET ids == [i \in DOMAIN analysis.containers |-> analysis.containers[i].id]
                    \o [i \in DOMAIN analysis.components |-> analysis.components[i].id]
           graph_nodes == AddNodes(<<>>, ids)
           graph_edges == AddDependencies(<<>>,
                              DependsOnEdges(graph_nodes) \o DeployedInEdges \o ImportEdges)
       IN  dependency_graph' = [built |-> TRUE, nodes |-> graph_nodes, edges |-> graph_edges]
    /\ UNCHANGED <<graphVars, analysis, model, main, run>>

\* graph.edges(data=True): the nodes in insertion order, the out-edges of
\* each in insertion order
EdgesInOrder ==
    Flatten([i \in DOMAIN dependency_graph.nodes |->
        SelectSeq(dependency_graph.edges,
                  LAMBDA e : e.source = dependency_graph.nodes[i])])

\* insights['systems'] = self.llm.identify_system_boundaries(all_components)
\* when there is a container or component, {'systems': []} otherwise
SystemBoundaries ==
    {<<>>, <<[name |-> "Core Platform", description |-> "Business services"]>>}

_extract_insights(systems) ==
    /\ main.state = "running"
    /\ analysis.insights = NoInsights
    /\ dependency_graph.built
    /\ (analysis.containers \o analysis.components = <<>>) => systems = <<>>
    /\ analysis' = [analysis EXCEPT !.insights = [analysed |-> TRUE, systems |-> systems]]
    /\ UNCHANGED <<graphVars, dependency_graph, model, main, run>>

----------------------------------------------------------------------------
(* LLMEngine: the oracle as the model builder sees it *)

\* response_text of _generate_with_fallback: the oracle's text, or '{}' when
\* client.generate raised
OracleFailed == "{}"
Replies == {OracleFailed, "", "Serves the shop. Written in Python"}

\* generate_component_description: blank text gives the fallback
\* "<name> - <type> in the system", any other text its first two sentences
generate_component_description(name, comp_type, response_text) ==
    IF response_text = ""
    THEN [fallback |-> TRUE, name |-> name, type |-> comp_type]
    ELSE [fallback |-> FALSE, sentences |-> response_text]

----------------------------------------------------------------------------
(* C4ModelBuilder.build *)

RepositoryName == "shop"

\* name.lower().replace(' ', '_')
Slug(name) ==
    CASE name = "Database" -> "database"
      [] name = "Cache" -> "cache"
      [] name = "Message Queue" -> "message_queue"
      [] name = "Core Platform" -> "core_platform"

\* the (name, description) tuple a Terraform resource adds to external_systems
ExternalOfResource(resource) ==
    IF resource.type \in {"aws_rds_instance", "aws_elasticache_cluster"}
    THEN {<<"Database", "External database system">>}
    ELSE IF resource.type \in {"aws_sqs_queue", "aws_sns_topic"}
    THEN {<<"Message Queue", "External messaging system">>}
    ELSE {}

\* container.get('image', '')
ImageOf(container) == container.image.signatures

\* the (name, description) tuple a container image adds to external_systems
ExternalOfImage(image) ==
    IF "postgres" \in image \/ "mysql" \in image
    THEN {<<"Database", "Database system">>}
    ELSE IF "redis" \in image
    THEN {<<"Cache", "Caching system">>}
    ELSE IF "kafka" \in image \/ "rabbitmq" \in image
    THEN {<<"Message Queue", "Messaging system">>}
    ELSE {}

SeqRange(q) == {q[i] : i \in DOMAIN q}

\* external_systems = set() of (name, desc) tuples
ExternalSystems ==
    UNION {ExternalOfResource(r) : r \in SeqRange(analysis.terraform)}
      \cup UNION {ExternalOfImage(ImageOf(c)) : c \in SeqRange(analysis.containers)}

ExternalElement(item) ==
    [id |-> <<"external", Slug(item[1])>>, name |-> item[1], type |-> "software_system",
     description |-> item[2], tags |-> {"external"}]

\* the orders in which a Python set may be iterated
Orderings(S) ==
    {q \in [1..Cardinality(S) -> S] : \A i, j \in 1..Cardinality(S) : q[i] = q[j] => i = j}

\* a context level that always starts with the default system
ContextSystemsWithDefault(reply) ==
    <<[id |-> <<"main_system">>, name |-> RepositoryName, type |-> "software_system",
       description |-> generate_component_description(RepositoryName, "component", reply),
       tags |-> {}]>>
      \o [i \in DOMAIN analysis.insights.systems |->
             LET sys == analysis.insights.systems[i]
             IN  [id |-> <<"system", Slug(sys.name)>>, name |-> sys.name,
                  type |-> "software_system", description |-> sys.description, tags |-> {}]]

\* _build_context_level without the external systems: the default system
\* when insights name none, one element per named system otherwise
ContextSystems(reply) ==
    IF analysis.insights.systems = <<>>
    THEN <<[id |-> <<"main_system">>, name |-> RepositoryName, type |-> "software_system",
            description |-> generate_component_description(RepositoryName, "component", reply),
            tags |-> {}]>>
    ELSE [i \in DOMAIN analysis.insights.systems |->
             LET sys == analysis.insights.systems[i]
             IN  [id |-> <<"system", Slug(sys.name)>>, name |-> sys.name,
                  type |-> "software_system", description |-> sys.description, tags |-> {}]]

\* _extract_technologies: the Technology members whose key occurs in the
\* image or the technology of the container
TechnologyOf(container) ==
    {t \in {"postgres", "redis", "kafka"} :
        t \in ImageOf(container) \cup container.technology.signatures}

\* _build_container_level: one Container per entry of analysis['containers']
ContainerElement(container, reply) ==
    [id |-> container.id, name |-> container.name,
     description |-> generate_component_description(container.name, container.type, reply),
     technology |-> TechnologyOf(container),
     runtime_environment |-> IF container.image = KeyAbsent THEN container.technology
                             ELSE container.image,
     dependencies |-> container.depends_on]

\* _build_component_level: one Component per entry of analysis['components']
ComponentElement(component, reply) ==
    [id |-> component.id, name |-> component.name,
     description |-> generate_component_description(component.name, component.type, reply),
     container_id |-> component.container_id,
     source_files |-> <<component.file_path>>]

\* infer_relationships: the keys of the oracle's JSON; when the call failed
\* _generate_with_fallback gives '{}', a JSON object with no key
OracleJson(protocol, description) ==
    [failed |-> FALSE, protocol |-> protocol, description |-> <<description>>]

RelationFailed == [failed |-> TRUE]

RelationReplies == {RelationFailed, OracleJson("HTTP", "Waits for it")}

\* the dict infer_relationships makes on json.JSONDecodeError, taken for the
\* reply of a failed call
RelationshipElementUnknown(edge, reply) ==
    [source_id |-> edge.source, target_id |-> edge.target,
     description |-> IF reply.failed THEN <<edge.relationship, "relationship">>
                     ELSE reply.description,
     technology |-> IF reply.failed THEN "unknown" ELSE reply.protocol,
     protocol |-> IF reply.failed THEN "unknown" ELSE reply.protocol]

\* _build_relationships: one Relationship per edge of the dependency graph;
\* relationship_details.get('description', f"{relationship_type} relationship")
\* and relationship_details.get('protocol', '') for technology and protocol
RelationshipElement(edge, reply) ==
    [source_id |-> edge.source, target_id |-> edge.target,
     description |-> IF reply.failed THEN <<edge.relationship, "relationship">>
                     ELSE reply.description,
     technology |-> IF reply.failed THEN "" ELSE reply.protocol,
     protocol |-> IF reply.failed THEN "" ELSE reply.protocol]

\* 'postgres' in image raises TypeError when image is None
ImageTestRaises == \E c \in SeqRange(analysis.containers) : c.image = ImageNone

BuildFailed == [name |-> "<TypeError>"]

\* build has called the oracle and waits for its reply: the first call is
\* for the description of the default system, or of the first container or
\* component when the insights name systems (then the external systems are
\* identified before any call)
_generate_with_fallback ==
    /\ main.state = "running" /\ ~main.in_flight
    /\ analysis.insights # NoInsights
    /\ model = NoModel
    /\ analysis.insights.systems = <<>> \/ ~ImageTestRaises
    /\ main' = [main EXCEPT !.in_flight = TRUE]
    /\ UNCHANGED <<graphVars, analysis, dependency_graph, model, run>>

\* the replies of the oracle to the remaining calls, and build's result
build ==
    /\ main.state = "running"
    /\ analysis.insights # NoInsights
    /\ model = NoModel
    /\ main.in_flight \/ (analysis.insights.systems # <<>> /\ ImageTestRaises)
    /\ \E sysReply \in (IF analysis.insights.systems = <<>> THEN Replies ELSE {NoCall}),
          contReplies \in [DOMAIN analysis.containers -> Replies],
          compReplies \in [DOMAIN analysis.components -> Replies],
          relReplies \in [DOMAIN EdgesInOrder -> RelationReplies],
          order \in Orderings(ExternalSystems) :
          IF ImageTestRaises
          THEN /\ model' = BuildFailed
               /\ main' = [main EXCEPT !.state = "exited", !.code = 1, !.in_flight = FALSE,
                                       !.replies.system = sysReply]
          ELSE /\ model' =
                     [name |-> RepositoryName,
                      systems |-> ContextSystems(sysReply)
                                    \o [i \in DOMAIN order |-> ExternalElement(order[i])],
                      containers |-> [i \in DOMAIN analysis.containers |->
                                         ContainerElement(analysis.containers[i], contReplies[i])],
                      components |-> [i \in DOMAIN analysis.components |->
                                         ComponentElement(analysis.components[i], compReplies[i])],
                      relationships |-> [i \in DOMAIN EdgesInOrder |->
                                         RelationshipElement(EdgesInOrder[i], relReplies[i])]]
               /\ main' = [main EXCEPT !.in_flight = FALSE,
                                       !.replies = [system |-> sysReply,
                                                    containers |-> contReplies,
                                                    components |-> compReplies,
                                                    relationships |-> relReplies]]
    /\ UNCHANGED <<graphVars, analysis, dependency_graph, run>>

\* Ctrl-C before build has returned: KeyboardInterrupt is not an Exception,
\* so it passes _generate_with_fallback and ends main with code 130
KeyboardInterrupt ==
    /\ main.state = "running"
    /\ model = NoModel
    /\ main' = [main EXCEPT !.state = "exited", !.code = 130, !.in_flight = FALSE]
    /\ UNCHANGED <<graphVars, analysis, dependency_graph, model, run>>

\* docker_files lists every Dockerfile once; a compose service may be
\* declared again by another compose file
AnalyzeDocker ==
    \E container \in ContainerDicts :
        /\ container.source_path # PathAbsent
              => container \notin SeqRange(analysis.containers)
        /\ _analyze_docker(container)

AnalyzeTerraform == \E resource_type \in TerraformTypes : _analyze_terraform(resource_type)

\* code_files lists every source file once
AnalyzeCode ==
    \E file \in CodeFiles :
        /\ \A c \in SeqRange(analysis.components) : c.file_path # file.path
        /\ _analyze_code(file)

ExtractInsights == \E systems \in SystemBoundaries : _extract_insights(systems)

NextBuilder ==
    \/ AnalyzeDocker
    \/ AnalyzeTerraform
    \/ AnalyzeCode
    \/ _build_dependency_graph
    \/ ExtractInsights
    \/ _generate_with_fallback
    \/ build
    \/ KeyboardInterrupt

SpecBuilder == Init /\ [][NextBuilder]_vars

----------------------------------------------------------------------------
(* C4ArchitectureRecovery.run: enrichment, then the knowledge graph *)

RunComponents ==
    {Component(n, "service", "python", {8080}, NoTags, "svc") : n \in IngestNames}

RunRelationships == {Relationship("A", "B", "calls", "http", "Calls the API")}

SeqsUpTo(S, n) == UNION {[1..k -> S] : k \in 0..n}

\* what a call of the oracle (chain.run, _generate_mistral) does: it returns
\* JSON, returns text that is not JSON, raises, or never returns
OracleOutcomes == {"json", "text", "error", "hang"}

\* steps 1 to 3: the facts the parsers report
_parse_all_files(components, relationships) ==
    /\ run.pc = "scan"
    /\ run' = [pc |-> "enrich_components", components |-> components,
               relationships |-> relationships, i |-> 1,
               semantic_contexts |-> EmptyFn, semantic_relationships |-> <<>>,
               requested |-> <<>>, requested_edges |-> <<>>]
    /\ UNCHANGED <<graphVars, builderVars>>

\* analyze_component: the context read from the JSON, or the fallback
\* context when json.loads fails
ContextOf(component, outcome, purpose) ==
    IF outcome = "json"
    THEN [component_name |-> component.name, purpose |-> purpose,
          business_capability |-> ""]
    ELSE [component_name |-> component.name, purpose |-> "Component: " \o component.type,
          business_capability |-> "Unknown"]

\* the call of the oracle for this node, and how it ended
Request(id, outcome) == [id |-> id, outcome |-> outcome]

\* one round of the loop of enrich_components; nothing catches what the
\* call raises, so run ends with the exception.  requested is the history of
\* the calls of analyze_component that were made
enrich_components(outcome, purpose) ==
    /\ run.pc = "enrich_components"
    /\ run.i <= Len(run.components)
    /\ run' = CASE outcome = "error" ->
                     [run EXCEPT !.pc = "raised",
                                 !.requested = Append(@, Request(run.components[run.i].name,
                                                                 outcome))]
                [] outcome = "hang" ->
                     [run EXCEPT !.pc = "blocked",
                                 !.requested = Append(@, Request(run.components[run.i].name,
                                                                 outcome))]
                [] OTHER ->
                     [run EXCEPT !.i = @ + 1,
                                 !.requested = Append(@, Request(run.components[run.i].name,
                                                                 outcome)),
                                 !.semantic_contexts =
                                     Put(@, run.components[run.i].name,
                                         ContextOf(run.components[run.i], outcome, purpose))]
    /\ UNCHANGED <<graphVars, builderVars>>

\* return enriched
enrich_components_return ==
    /\ run.pc = "enrich_components"
    /\ run.i > Len(run.components)
    /\ run' = [run EXCEPT !.pc = "enrich_relationships", !.i = 1]
    /\ UNCHANGED <<graphVars, builderVars>>

\* analyze_relationship: the dict read from the JSON, or the fallback dict
\* with the protocol of the fact
SemanticInfoOf(relationship, outcome, info) ==
    IF outcome = "json" THEN info ELSE [protocol |-> relationship.protocol]

\* one round of the loop of enrich_relationships
enrich_relationships(outcome, info) ==
    /\ run.pc = "enrich_relationships"
    /\ run.i <= Len(run.relationships)
    /\ run' = CASE outcome = "error" ->
                     [run EXCEPT !.pc = "raised",
                                 !.requested_edges =
                                     Append(@, Request(<<run.relationships[run.i].source,
                                                         run.relationships[run.i].target>>,
                                                       outcome))]
                [] outcome = "hang" ->
                     [run EXCEPT !.pc = "blocked",
                                 !.requested_edges =
                                     Append(@, Request(<<run.relationships[run.i].source,
                                                         run.relationships[run.i].target>>,
                                                       outcome))]
                [] OTHER ->
                     [run EXCEPT !.i = @ + 1,
                                 !.requested_edges =
                                     Append(@, Request(<<run.relationships[run.i].source,
                                                         run.relationships[run.i].target>>,
                                                       outcome)),
                                 !.semantic_relationships =
                                     Append(@, [relationship |-> run.relationships[run.i],
                                                semantic_info |->
                                                    SemanticInfoOf(run.relationships[run.i],
                                                                   outcome, info)])]
    /\ UNCHANGED <<graphVars, builderVars>>

\* return enriched
enrich_relationships_return ==
    /\ run.pc = "enrich_relationships"
    /\ run.i > Len(run.relationships)
    /\ run' = [run EXCEPT !.pc = "build_knowledge_graph", !.i = 1]
    /\ UNCHANGED <<graphVars, builderVars>>

RECURSIVE AddComponents(_, _, _)
AddComponents(table, components, contexts) ==
    IF components = <<>> THEN table
    ELSE AddComponents(StoreNode(table, Head(components), contexts[Head(components).name]),
                       Tail(components), contexts)

RECURSIVE AddRelationships(_, _)
AddRelationships(list, enriched) ==
    IF enriched = <<>> THEN list
    ELSE AddRelationships(StoreEdge(list, Head(enriched).relationship,
                                    Head(enriched).semantic_info),
                          Tail(enriched))

RECURSIVE AddGraphEdges(_, _)
AddGraphEdges(g, enriched) ==
    IF enriched = <<>> THEN g
    ELSE AddGraphEdges(DiGraphAddEdge(g, Head(enriched).relationship,
                                      Head(enriched).semantic_info),
                       Tail(enriched))

RECURSIVE Ingest(_, _)
Ingest(history, components) ==
    IF components = <<>> THEN history
    ELSE LET c == Head(components)
             nth == Cardinality({h \in history : h.key = IdentityKey(c)}) + 1
         IN  Ingest(history \cup {[key |-> IdentityKey(c), id |-> NodeId(c), nth |-> nth]},
                    Tail(components))

\* step 5: add_component for every component (each has a context), then
\* add_relationship for every enriched relationship
_build_knowledge_graph ==
    /\ run.pc = "build_knowledge_graph"
    /\ LET rels == [k \in DOMAIN run.semantic_relationships |->
                       run.semantic_relationships[k].relationship]
       IN  /\ nodes' = AddComponents(nodes, run.components, run.semantic_contexts)
           /\ edges' = AddRelationships(edges, run.semantic_relationships)
           /\ gnodes' = gnodes \cup {c.name : c \in SeqRange(run.components)}
                          \cup UNION {{r.source, r.target} : r \in SeqRange(rels)}
           /\ gedges' = AddGraphEdges(gedges, run.semantic_relationships)
           /\ nops' = nops + Len(run.components) + Len(rels)
           /\ lastOp' = [op |-> "_build_knowledge_graph"]
           /\ ingested' = Ingest(ingested, run.components)
           /\ relFacts' = relFacts \o rels
    /\ run' = [run EXCEPT !.pc = "generate_diagrams"]
    /\ UNCHANGED builderVars

ParseAllFiles ==
    \E components \in SeqsUpTo(RunComponents, MaxRunFacts),
       relationships \in SeqsUpTo(RunRelationships, 1) :
        _parse_all_files(components, relationships)

EnrichComponents ==
    \E outcome \in OracleOutcomes, purpose \in Purposes :
        /\ outcome # "json" => purpose = ""
        /\ enrich_components(outcome, purpose)

EnrichRelationships ==
    \E outcome \in OracleOutcomes, info \in SemanticInfos :
        /\ outcome # "json" => info = [protocol |-> NoProtocol]
        /\ enrich_relationships(outcome, info)

NextRun ==
    \/ ParseAllFiles
    \/ EnrichComponents
    \/ enrich_components_return
    \/ EnrichRelationships
    \/ enrich_relationships_return
    \/ _build_knowledge_graph

\* run is one sequential program: a step that can be taken is taken
SpecRun == Init /\ [][NextRun]_vars /\ WF_vars(NextRun)

----------------------------------------------------------------------------
(* Claims on ingestion *)

IsIngest(op) == op.op \in {"add_component", "add_relationship"}

\* C1: ingesting the same component or relationship fact a second time leaves
\* the number of nodes (node table, graph) and the number of edges (edge list,
\* graph) as they were after the first time.
C1_IdempotentIngestion ==
    [][(IsIngest(lastOp) /\ nops' = nops + 1 /\ lastOp' = lastOp)
         => /\ Cardinality(DOMAIN nodes') = Cardinality(DOMAIN nodes)
            /\ Cardinality(gnodes') = Cardinality(gnodes)
            /\ Len(edges') = Len(edges)
            /\ Cardinality(DOMAIN gedges') = Cardinality(DOMAIN gedges)]_vars

\* the empty value of each property
EmptyValue ==
    [technology |-> "", ports |-> {}, env_vars |-> {}, endpoints |-> {},
     metadata |-> [tags |-> {}, source_path |-> ""]]

PropertyKeys == {"technology", "ports", "env_vars", "endpoints", "metadata"}

\* C2: when a second component fact with the identity of a stored node is
\* ingested, every property that was non-empty keeps its first value and
\* every property that was empty takes the value of the second fact.
C2_FirstWriterWins ==
    [][(/\ lastOp'.op = "add_component" /\ nops' = nops + 1
        /\ lastOp'.result \in DOMAIN nodes
        /\ LET c == lastOp'.arg.fact
               old == nodes[lastOp'.result]
           IN  IdentityKey(c) = <<old.type, old.id, old.properties.metadata.source_path>>)
         => LET c == lastOp'.arg.fact
                old == nodes[lastOp'.result].properties
                new == nodes'[lastOp'.result].properties
                given == GraphNode(c, lastOp'.arg.sem).properties
            IN  \A k \in PropertyKeys :
                    new[k] = IF old[k] = EmptyValue[k] THEN given[k] ELSE old[k]]_vars

PairOf(e) == <<e.source, e.target>>

FactsFor(pair) == SelectSeq(relFacts, LAMBDA r : PairOf(r) = pair)

RECURSIVE FirstNonEmpty(_)
FirstNonEmpty(descs) ==
    IF descs = <<>> THEN ""
    ELSE IF Head(descs) # "" THEN Head(descs) ELSE FirstNonEmpty(Tail(descs))

DescriptionsOf(fs) == [i \in DOMAIN fs |-> fs[i].description]

\* the protocols an edge carries: its single 'protocol' property, when set
ProtocolsOf(props) == {props.protocol} \ {""}

\* C3: the graph holds at most one edge per ordered (source, target) pair,
\* its protocols are the union of the protocols of the facts ingested for the
\* pair and its description is the first non-empty description ingested.
C3_EdgeMerging ==
    \A pair \in DOMAIN gedges :
        /\ Cardinality({i \in DOMAIN edges : PairOf(edges[i]) = pair}) <= 1
        /\ ProtocolsOf(gedges[pair]) =
               {FactsFor(pair)[i].protocol : i \in DOMAIN FactsFor(pair)} \ {""}
        /\ gedges[pair].description = FirstNonEmpty(DescriptionsOf(FactsFor(pair)))

\* C4: two component facts with identical (kind, name, source_path) get the
\* same node id and are one node of the node table and of the graph, whatever
\* was ingested before, between or after them.
C4_IdDeterminism ==
    \A h1 \in ingested, h2 \in ingested :
        h1.key = h2.key
          => /\ h1.id = h2.id
             /\ Cardinality({n \in DOMAIN nodes : nodes[n].id = h1.id}) = 1
             /\ h1.key[2] \in gnodes

\* a component fact was ingested twice and another fact was ingested as well
C4_Witness ==
    /\ \E h \in ingested : h.nth = 2
    /\ \/ Cardinality(DOMAIN nodes) = 2
       \/ Len(edges) = 1

ContainerKinds == {"service", "database", "cache", "queue", "frontend", "ingress"}

\* C9: after classification every graph node has exactly one tier, and every
\* node of kind service, database, cache, queue, frontend or ingress is a
\* Container.
C9_ExactlyOneTier ==
    lastOp.op = "classify"
      => \A n \in gnodes :
            /\ Cardinality(TiersOf(lastOp.result, n)) = 1
            /\ (n \in DOMAIN nodes /\ nodes[n].type \in ContainerKinds)
                  => "Container" \in TiersOf(lastOp.result, n)

----------------------------------------------------------------------------
(* Claims on the metrics *)

HasEdgeInto(n) == \E e \in DOMAIN gedges : e[2] = n

\* C5: identify_entry_points returns exactly the graph nodes that no edge
\* ends in; for the edges A -> B and B -> C over the nodes A, B, C it returns {A}.
C5_EntryPoints ==
    lastOp.op = "identify_entry_points"
      => /\ lastOp.result = {n \in gnodes : ~HasEdgeInto(n)}
         /\ (gnodes = {"A", "B", "C"} /\ DOMAIN gedges = {<<"A", "B">>, <<"B", "C">>})
               => lastOp.result = {"A"}

C5_Witness ==
    /\ lastOp.op = "identify_entry_points"
    /\ gnodes = {"A", "B", "C"}
    /\ DOMAIN gedges = {<<"A", "B">>, <<"B", "C">>}
    /\ lastOp.result = {"A"}

\* the nodes at the end of a path of 1 to k edges that starts in S
RECURSIVE ReachWithin(_, _)
ReachWithin(S, k) ==
    IF k = 0 THEN {}
    ELSE LET next == UNION {Successors(n) : n \in S}
         IN  next \cup ReachWithin(next, k - 1)

\* the nodes reachable from id along one or more edges; id itself is among
\* them when it lies on a cycle
ReachableFrom(id) == ReachWithin({id}, Cardinality(gnodes))

\* C6 as stated: descendants(id) terminates and returns every node reachable
\* from id along edges, id included when a cycle leads back to it.
C6_DescendantsAllReachable ==
    lastOp.op = "find_dependencies_chain"
      => /\ lastOp.result.finished
         /\ lastOp.result.children = ReachableFrom(lastOp.arg.component)

\* C6 amended: descendants(id) terminates on every graph, cyclic or not, and
\* returns every node other than id that is reachable from id along edges;
\* id itself is never part of the result.
C6_DescendantsExceptSelf ==
    lastOp.op = "find_dependencies_chain"
      => /\ lastOp.result.finished
         /\ lastOp.result.children =
               ReachableFrom(lastOp.arg.component) \ {lastOp.arg.component}

\* the descendants of a node on a cycle through another node
C6_Witness ==
    /\ lastOp.op = "find_dependencies_chain"
    /\ lastOp.arg.component \in ReachableFrom(lastOp.arg.component)
    /\ lastOp.result.finished
    /\ lastOp.result.children # {}

\* C7: the sets returned by detect_subsystems are pairwise disjoint and their
\* union is the node set of the graph, nodes that are only edge endpoints
\* included.
C7_PartitionCoverage ==
    lastOp.op = "detect_subsystems"
      => LET r == lastOp.result
         IN  /\ UNION {r[i] : i \in DOMAIN r} = gnodes
             /\ \A i \in DOMAIN r, j \in DOMAIN r : i # j => r[i] \cap r[j] = {}

\* two communities, one of them merged from two nodes, over a graph with a
\* node that was never declared as a component
C7_Witness ==
    /\ lastOp.op = "detect_subsystems"
    /\ gnodes \ DOMAIN nodes # {}
    /\ Len(lastOp.result) = 2
    /\ \E i \in DOMAIN lastOp.result : Cardinality(lastOp.result[i]) = 2

\* the floating tolerance of the sum of the scores: 1e-05
SumTolerance == One \div 100000

ScoredNodes(x) == {item[1] : item \in x}

ValidScores(r) ==
    /\ ~r.raised
    /\ r.rounds <= MaxIter
    /\ ScoredNodes(r.scores) = gnodes
    /\ Cardinality(r.scores) = Cardinality(gnodes)
    /\ \A item \in r.scores : item[2] >= 0

\* C8 as stated: for any graph calculate_criticality returns without raising
\* after at most 100 rounds, with a score >= 0 for every node, and the scores
\* sum to 1.
C8_CriticalityValid ==
    lastOp.op = "calculate_criticality"
      => /\ ValidScores(lastOp.result)
         /\ Abs(SumScores(lastOp.result.scores, gnodes) - One) <= SumTolerance

\* C8 amended: for any graph calculate_criticality returns without raising
\* after at most 100 rounds, with a score >= 0 for every node; the scores sum
\* to 1 when the graph has at least one node, and the result is empty (sum 0)
\* when it has none.
C8_CriticalityValidNonEmpty ==
    lastOp.op = "calculate_criticality"
      => /\ ValidScores(lastOp.result)
         /\ gnodes # {}
              => Abs(SumScores(lastOp.result.scores, gnodes) - One) <= SumTolerance
         /\ gnodes = {} => lastOp.result.scores = {}

\* the scores of a graph with a cycle and a node without outgoing edges
C8_Witness ==
    /\ lastOp.op = "calculate_criticality"
    /\ Cardinality(gnodes) = 3
    /\ DanglingNodes # {}
    /\ \E n \in gnodes : n \in ReachableFrom(n)
    /\ lastOp.result.rounds > 1

----------------------------------------------------------------------------
(* Claims on the assembled model *)

Built == model # NoModel /\ model # BuildFailed

Categories == {"Database", "Cache", "Message Queue"}

\* the category is present: a resource or an image of the analysis belongs to it
CategoryPresent(cat) == \E item \in ExternalSystems : item[1] = cat

ExternalOfCategory(cat) ==
    {i \in DOMAIN model.systems :
        model.systems[i].name = cat /\ "external" \in model.systems[i].tags}

\* C10: every category (Database, Cache, Message Queue) that is present among
\* the Terraform resources and container images yields exactly one external
\* system element of the model, tagged external, whatever the number and the
\* source of the resources and images of the category.
C10_OneExternalPerCategory ==
    Built => \A cat \in Categories :
                 Cardinality(ExternalOfCategory(cat)) = IF CategoryPresent(cat) THEN 1 ELSE 0

\* C11: whenever the image of at least one container contains "redis", the
\* assembled model holds exactly one external system of category Cache,
\* however many containers reference redis images and whatever else the
\* image names contain.
C11_RedisGivesOneCache ==
    (Built /\ \E c \in SeqRange(analysis.containers) : "redis" \in ImageOf(c))
      => Cardinality(ExternalOfCategory("Cache")) = 1

----------------------------------------------------------------------------
(* Claims on containment *)

\* the containers whose declared source_path is the longest prefix of the path
LongestPrefixContainers(file_path, containers) ==
    LET matching == MatchingContainers(file_path, containers)
    IN  {i \in matching :
            \A j \in matching : Len(containers[j].source_path.segments)
                                  <= Len(containers[i].source_path.segments)}

\* C12: the container_id of every component is the id of the container
\* whose declared source_path is the longest prefix of the component's path,
\* in whatever order the containers are listed; a container whose
\* source_path is not a prefix of the path never wins.
C12_LongestPrefixContainment ==
    \A k \in DOMAIN analysis.components :
        LET comp == analysis.components[k]
            longest == LongestPrefixContainers(comp.file_path, analysis.containers)
        IN  /\ longest # {}
                => comp.container_id \in {analysis.containers[i].id : i \in longest}
            /\ comp.container_id # None
                => \E i \in MatchingContainers(comp.file_path, analysis.containers) :
                       analysis.containers[i].id = comp.container_id

\* C13: a component whose path matches the source_path of no container has
\* container_id None and is an element of the model's components list; the
\* components list of the model holds every component of the analysis.
C13_UnmatchedComponentKept ==
    Built =>
        /\ Len(model.components) = Len(analysis.components)
        /\ \A k \in DOMAIN analysis.components :
               /\ model.components[k].id = analysis.components[k].id
               /\ model.components[k].source_files = <<analysis.components[k].file_path>>
               /\ MatchingContainers(analysis.components[k].file_path, analysis.containers) = {}
                    => model.components[k].container_id = None

\* a model with an unassigned component, built from an analysis that has a
\* container with a source_path
C13_Witness ==
    /\ Built
    /\ \E c \in SeqRange(analysis.containers) : c.source_path # PathAbsent
    /\ \E k \in DOMAIN model.components : model.components[k].container_id = None

\* the component ids whose containment is unresolved
Unresolved(id) ==
    \E c \in SeqRange(analysis.components) : c.id = id /\ c.container_id = None

\* C14: no relationship of the assembled model has, at both ends, a
\* component whose containment is unresolved (container_id None).
C14_ProjectionDropRule ==
    Built => \A i \in DOMAIN model.relationships :
                 ~(/\ Unresolved(model.relationships[i].source_id)
                   /\ Unresolved(model.relationships[i].target_id))

----------------------------------------------------------------------------
(* Claims on the lists of the assembled model *)

DistinctIds(list) == \A i, j \in DOMAIN list : list[i].id = list[j].id => i = j

\* C15: in the systems, the containers and the components list of the
\* assembled model no two elements have the same id.
C15_ListsDeduplicatedById ==
    Built => /\ DistinctIds(model.systems)
             /\ DistinctIds(model.containers)
             /\ DistinctIds(model.components)

ModelIds ==
    {e.id : e \in SeqRange(model.systems)}
      \cup {e.id : e \in SeqRange(model.containers)}
      \cup {e.id : e \in SeqRange(model.components)}

\* C16: the source_id and the target_id of every relationship of the
\* assembled model are ids of elements of its systems, containers or
\* components list.
C16_ReferentialIntegrity ==
    Built => \A i \in DOMAIN model.relationships :
                 /\ model.relationships[i].source_id \in ModelIds
                 /\ model.relationships[i].target_id \in ModelIds

\* a model with a depends_on relationship between containers and a
\* deployed_in relationship from a component
C16_Witness ==
    /\ Built
    /\ \E i \in DOMAIN model.relationships :
           model.relationships[i].description[1] = "depends_on"
    /\ \E i \in DOMAIN model.relationships :
           model.relationships[i].description[1] = "deployed_in"

DefaultSystems ==
    {i \in DOMAIN model.systems :
        model.systems[i].id = <<"main_system">> /\ model.systems[i].name = RepositoryName}

\* C17: the assembled model holds the default system, named after the
\* repository, exactly when the insights name no system; from an empty
\* analysis a model is still built, and it holds the default system and
\* nothing else.
C17_DefaultSystemRule ==
    /\ Built => Cardinality(DefaultSystems)
                  = IF analysis.insights.systems = <<>> THEN 1 ELSE 0
    /\ (model # NoModel /\ AnalysisSize = 0)
         => /\ Built
            /\ Len(model.systems) = 1 /\ DefaultSystems = {1}
            /\ model.containers = <<>> /\ model.components = <<>>
            /\ model.relationships = <<>>

\* a model built from insights that name a system: it has that system and
\* no default system
C17_Witness ==
    /\ Built
    /\ analysis.insights.systems # <<>>
    /\ \E i \in DOMAIN model.systems : model.systems[i].id = <<"system", "core_platform">>
    /\ DefaultSystems = {}

----------------------------------------------------------------------------
(* Claims on the oracle *)

\* the fallback description built from the name and the kind of an element
FallbackDescription(name, kind) == [fallback |-> TRUE, name |-> name, type |-> kind]

\* C18: when the oracle call for an element fails, the description of the
\* element in the final model is the fallback string built from its name and
\* kind, never the empty string and never what the call returned.
C18_OracleFailureFallsBack ==
    Built =>
        /\ main.replies.system = OracleFailed
             => model.systems[1].description = FallbackDescription(RepositoryName, "component")
        /\ \A i \in DOMAIN model.containers :
               main.replies.containers[i] = OracleFailed
                 => model.containers[i].description
                      = FallbackDescription(model.containers[i].name, "container")
        /\ \A i \in DOMAIN model.components :
               main.replies.components[i] = OracleFailed
                 => model.components[i].description
                      = FallbackDescription(model.components[i].name, "component")

\* the knowledge graph has been built from the facts of the run
Assembled == run.pc \in {"generate_diagrams", "export", "done"}

\* C19: whatever the oracle does on each call (it answers, it raises, it
\* never answers), the run eventually gets past enrichment and assembles the
\* graph: an error or a missing answer neither ends the run nor blocks it.
C19_EnrichmentIsNoGate == <>Assembled

\* C20: when main is cancelled while an oracle call is in flight, it still
\* ends with a complete model.
C20_CancellationYieldsModel ==
    [][(main.in_flight /\ main'.state = "exited" /\ main'.code = 130)
         => (model' # NoModel /\ model' # BuildFailed)]_vars

----------------------------------------------------------------------------
(* The knowledge graph under malformed facts, and the diagrams *)

Raised(op) == "raised" \in DOMAIN op /\ op.raised

GraphBuilderOps ==
    {"add_component", "add_relationship", "identify_entry_points",
     "find_dependencies_chain", "detect_subsystems", "calculate_criticality"}

EmptyResult(op) ==
    CASE op.op = "identify_entry_points" -> op.result = {}
      [] op.op = "find_dependencies_chain" -> op.result.children = {}
      [] op.op = "detect_subsystems" -> op.result = <<>>
      [] op.op = "calculate_criticality" -> op.result = {}
      [] OTHER -> TRUE

\* C22: no operation of the graph builder raises, whatever the facts; a fact
\* with a missing name is stored under a synthetic id, never under the
\* missing name; on the empty graph every metric returns an empty result.
C22_NoGraphOperationFails ==
    lastOp.op \in GraphBuilderOps =>
        /\ ~Raised(lastOp)
        /\ MissingName \notin DOMAIN nodes
        /\ (gnodes = {} => EmptyResult(lastOp))

\* a fourth argument in quotes
Quoted(text) == [text |-> text, quoted |-> TRUE]

\* the trailing argument the claim describes: quoted, present exactly when
\* the technology is not empty
QuotedTechInfo(technology) ==
    IF technology # "" THEN <<Quoted(technology)>> ELSE <<>>

\* C23: every Rel line of every emitted diagram ends with the relationship's
\* technology as a fourth, quoted argument exactly when the technology is
\* not empty, and with nothing after the description when it is empty.
C23_RelationshipMarkup ==
    lastOp.op = "generate_all_diagrams" =>
        LET rels == SelectSeq(edges, BetweenContainers)
        IN  /\ \A line \in lastOp.context : line.technology = <<>>
            /\ Len(lastOp.container) = Len(rels)
            /\ \A k \in DOMAIN rels :
                   /\ lastOp.container[k].source = rels[k].source
                   /\ lastOp.container[k].target = rels[k].target
                   /\ lastOp.container[k].description = rels[k].properties.description
                   /\ lastOp.container[k].technology
                          = QuotedTechInfo(rels[k].properties.protocol)

Declared == {h.id : h \in ingested}

\* C24: both endpoints of every edge are in the node table, an endpoint that
\* no component fact declared as a placeholder node of kind "unknown".
C24_EndpointsExistAsNodes ==
    \A k \in DOMAIN edges : \A endpoint \in {edges[k].source, edges[k].target} :
        /\ endpoint \in DOMAIN nodes
        /\ (endpoint \notin Declared => nodes[endpoint].type = "unknown")

\* C28: after any sequence of add_component and add_relationship calls every
\* key of the node table is a node of the directed graph, and the (source,
\* target) pairs of the edge list are exactly the edges of the directed graph.
C28_TableAndListMatchGraph ==
    /\ DOMAIN nodes \subseteq gnodes
    /\ {<<edges[k].source, edges[k].target>> : k \in DOMAIN edges} = DOMAIN gedges

ServiceContainers == {n \in _identify_containers : nodes[n].type = "service"}

\* C30: generate_all_diagrams returns without an error for every knowledge
\* graph, having written the context diagram, the container diagram and then
\* one component diagram per container of type service, and no other.
C30_AllDiagramsWritten ==
    lastOp.op = "generate_all_diagrams" =>
        /\ ~Raised(lastOp)
        /\ Len(lastOp.written) >= 2
        /\ lastOp.written[1] = <<"context">>
        /\ lastOp.written[2] = <<"container">>
        /\ {lastOp.written[k] : k \in 3..Len(lastOp.written)}
               = {<<"component", n>> : n \in ServiceContainers}
        /\ Len(lastOp.written) = 2 + Cardinality(ServiceContainers)

----------------------------------------------------------------------------
(* The assembled model: order, tiers and relationships *)

\* the ids the model can hold, in the order of their strings
\* ("component_main" < ... < "system_core_platform")
SortedIds ==
    <<<<"component", "main">>, <<"component", "util">>,
      <<"container", "db">>, <<"container", "sub">>, <<"container", "web">>,
      <<"container", "worker">>,
      <<"external", "cache">>, <<"external", "database">>,
      <<"external", "message_queue">>,
      <<"main_system">>, <<"system", "core_platform">>>>

Rank(id) == CHOOSE k \in DOMAIN SortedIds : SortedIds[k] = id

SortedById(list) ==
    \A i, j \in DOMAIN list : i < j => Rank(list[i].id) <= Rank(list[j].id)

\* C21: the systems, containers and components lists of the assembled model
\* are sorted by id, so the order of the lists does not depend on the order
\* in which the facts were presented.
C21_ListsSortedById ==
    Built => /\ SortedById(model.systems)
             /\ SortedById(model.containers)
             /\ SortedById(model.components)

\* the tier of the element with this id
TierOf(id) ==
    CASE id[1] = "component" -> "Component"
      [] id[1] = "container" -> "Container"
      [] OTHER -> "System"

\* C25: every relationship of the assembled model joins two elements of the
\* same tier; no edge appears with endpoints of different tiers.
C25_NoCrossTierRelationship ==
    Built => \A i \in DOMAIN model.relationships :
                 TierOf(model.relationships[i].source_id)
                     = TierOf(model.relationships[i].target_id)

\* C26: no relationship of the assembled model has its source as its target,
\* also when a service declares a dependency on itself.
C26_NoSelfRelationship ==
    Built => \A i \in DOMAIN model.relationships :
                 model.relationships[i].source_id # model.relationships[i].target_id

\* C29: the assembled model has one relationship per edge of the dependency
\* graph whether or not oracle calls fail, and the relationship of an edge
\* whose oracle call failed has the description "<type> relationship" and an
\* empty protocol and technology.
C29_FailedCallKeepsRelationship ==
    Built =>
        /\ Len(model.relationships) = Len(EdgesInOrder)
        /\ \A i \in DOMAIN model.relationships :
               /\ model.relationships[i].source_id = EdgesInOrder[i].source
               /\ model.relationships[i].target_id = EdgesInOrder[i].target
               /\ main.replies.relationships[i].failed =>
                      /\ model.relationships[i].description
                             = <<EdgesInOrder[i].relationship, "relationship">>
                      /\ model.relationships[i].protocol = ""
                      /\ model.relationships[i].technology = ""

\* a model with two relationships, one whose oracle call failed and one
\* whose call was answered
C29_Witness ==
    /\ Built
    /\ \E i, j \in DOMAIN model.relationships :
           /\ main.replies.relationships[i].failed
           /\ ~main.replies.relationships[j].failed

----------------------------------------------------------------------------
(* Enrichment *)

\* the calls of the oracle made for this node or edge so far
RequestsOf(history, id) == {k \in DOMAIN history : history[k].id = id}

\* the call for it raised
Failed(history, id) == \E k \in RequestsOf(history, id) : history[k].outcome = "error"

\* C27: a node or an edge goes from pending to requested and from there to
\* enriched or to failed, and no further: the oracle is asked for it at most
\* once in a run, and a node whose call failed has no semantic context.
C27_EnrichmentStateMachine ==
    run.pc # "scan" =>
        /\ \A k \in DOMAIN run.requested :
               /\ Cardinality(RequestsOf(run.requested, run.requested[k].id)) <= 1
               /\ Failed(run.requested, run.requested[k].id)
                      => run.requested[k].id \notin DOMAIN run.semantic_contexts
        /\ \A k \in DOMAIN run.requested_edges :
               Cardinality(RequestsOf(run.requested_edges, run.requested_edges[k].id)) <= 1

============================================================================
